---- MODULE Spec2Model ----
(***************************************************************************)
(* Brooklyn Catholic Parishes Timeline (src/js/app.js) as a state machine. *)
(*                                                                         *)
(* The browser page keeps its state in AppState, in a few closure          *)
(* variables (isDragging) and in the DOM (the autocomplete box, the        *)
(* address result panel, the search button).  Every event handler of       *)
(* app.js is one action.  Geometry is modelled on a finite lattice: a      *)
(* polygon is the set of lattice points it covers, so that a Voronoi cell, *)
(* an intersection and a point-in-polygon test are computed, not assumed.  *)
(*                                                                         *)
(* Encodings: JavaScript null is the empty sequence <<>> and a present     *)
(* value x is <<x>>; a missing closing year is 0 and a missing origin is   *)
(* "" (both falsy in JavaScript, as null is); a text is a sequence of      *)
(* one-character strings.                                                  *)
(***************************************************************************)
EXTENDS Integers, Sequences, FiniteSets

\* ==================== CONFIG ====================
MIN_YEAR == 1822
MAX_YEAR == 2025
MAP_DEFAULT_ZOOM == 12
MAP_DETAIL_ZOOM == 15
AUTOCOMPLETE_MIN_CHARS == 2
AUTOCOMPLETE_MAX_RESULTS == 8
ADDRESS_MIN_CHARS == 3

\* ==================== bounds of the model ====================
\* The lattice of positions is (0..GridMax) x (0..GridMax); it stands for
\* CONFIG.VORONOI_BBOX.
GridMax == 3
\* The slider container: rect.left and rect.width, in pixels.
SliderLeft == 1
SliderWidth == 2
\* Longest text typed into the parish search box.
MaxQueryLen == 3
\* Most geocoding requests in flight at once.
MaxRequests == 2

\* ==================== option values ====================
Null == <<>>
Some(x) == <<x>>
IsNull(o) == o = <<>>
Val(o) == o[1]

Min(a, b) == IF a <= b THEN a ELSE b
Max(a, b) == IF a >= b THEN a ELSE b

\* ==================== texts ====================
\* The characters typed into the parish search box.
Chars == {"a", "B", " "}

\* String.prototype.toLowerCase, one character.
LowerChar(c) == IF c = "A" THEN "a" ELSE IF c = "B" THEN "b" ELSE c

toLowerCase(s) == [i \in 1..Len(s) |-> LowerChar(s[i])]

RECURSIVE TrimStart(_)
TrimStart(s) == IF s # <<>> /\ Head(s) = " " THEN TrimStart(Tail(s)) ELSE s

RECURSIVE TrimEnd(_)
TrimEnd(s) ==
    IF s # <<>> /\ s[Len(s)] = " " THEN TrimEnd(SubSeq(s, 1, Len(s) - 1)) ELSE s

\* String.prototype.trim
trim(s) == TrimEnd(TrimStart(s))

\* query.split(/\s+/).filter(w => w.length > 0): the maximal runs of
\* non-space characters, in order.
RECURSIVE SplitWords(_, _)
SplitWords(s, cur) ==
    IF s = <<>> THEN (IF cur = <<>> THEN <<>> ELSE <<cur>>)
    ELSE IF Head(s) = " "
         THEN (IF cur = <<>> THEN <<>> ELSE <<cur>>) \o SplitWords(Tail(s), <<>>)
         ELSE SplitWords(Tail(s), Append(cur, Head(s)))

\* String.prototype.includes: word occurs in text as a contiguous run.
includes(text, word) ==
    \E k \in 0..(Len(text) - Len(word)) :
        \A i \in 1..Len(word) : text[k + i] = word[i]

\* ==================== data files ====================
\* data/parishes.json and data/kings-county-boundary.json are inputs of the
\* page.  A parish record has id, name, address, est, closed, origin and a
\* position (lng, lat).
Parish(id, name, address, est, closed, origin, lng, lat) ==
    [id |-> id, name |-> name, address |-> address, est |-> est,
     closed |-> closed, origin |-> origin, lng |-> lng, lat |-> lat]

SmallParishes ==
    << Parish(1, <<"A", "b">>, <<"a">>,      1822, 0,    "",       0, 0),
       Parish(2, <<"B", "a">>, <<"b">>,      1850, 1923, "German", 2, 0),
       Parish(3, <<"A", "a">>, <<"a">>,      1924, 0,    "German", 0, 2),
       Parish(4, <<"B", "b">>, <<"a", "b">>, 1900, 1924, "Polish", 2, 3),
       Parish(5, <<"A">>,      <<"b">>,      1950, 0,    "German", 3, 3) >>

\* A list longer than AUTOCOMPLETE_MAX_RESULTS.
LargeParishes ==
    << Parish(1,  <<"A", "b">>,      <<"a">>,      1822, 0,    "",       0, 0),
       Parish(2,  <<"a", "b">>,      <<"b">>,      1823, 0,    "",       1, 0),
       Parish(3,  <<"b", "a">>,      <<"a">>,      1850, 1923, "German", 2, 0),
       Parish(4,  <<"a", "B">>,      <<"b", "b">>, 1860, 0,    "",       3, 0),
       Parish(5,  <<"a", "a">>,      <<"a">>,      1924, 0,    "German", 0, 1),
       Parish(6,  <<"A", "B">>,      <<"a", "b">>, 1900, 1924, "Polish", 1, 1),
       Parish(7,  <<"b", "A", "b">>, <<"a">>,      1925, 0,    "Polish", 2, 2),
       Parish(8,  <<"a", "b">>,      <<"a", "a">>, 1950, 2024, "German", 0, 3),
       Parish(9,  <<"b">>,           <<"a", "b">>, 1960, 0,    "",       1, 3),
       Parish(10, <<"A", "b", "a">>, <<"b">>,      1990, 0,    "Polish", 2, 3),
       Parish(11, <<"a", "b", "b">>, <<"a">>,      2000, 0,    "",       3, 3) >>

\* What loadParishesData can leave in AppState.parishes: a loaded list, or
\* the initial [] when the fetch fails.
ParishLists == {<<>>, SmallParishes}

BBoxPoints == (0..GridMax) \X (0..GridMax)

\* The county outline, as the lattice points it covers.
KingsCountyArea == {p \in BBoxPoints : p[1] <= 2}

\* What loadBoundaryData can leave in AppState.kingsCountyBoundary.
Boundaries == {Null, Some(KingsCountyArea)}

\* The data-origin values of the filter chips.
Origins == {"all", "German", "Polish", "Italian"}

\* Stand-in for CONFIG.MAP_CENTER, as [lat, lng].
MAP_CENTER == <<1, 1>>

\* ==================== application state ====================
VARIABLES
    parishes,                \* AppState.parishes
    kingsCountyBoundary,     \* AppState.kingsCountyBoundary
    currentVoronoiFeatures,  \* AppState.currentVoronoiFeatures
    filters,                 \* AppState.filters: yearStart, yearEnd, origin
    ui,                      \* AppState.ui: showBoundaries
    layers,                  \* AppState.layers: markers, voronoi, searchMarker
    mapView,                 \* AppState.map: centre [lat, lng] and zoom
    popup,                   \* the popup open on the map, if any
    parishList,              \* #parish-list: ids of the items, in order
    stats,                   \* #active-count and #closed-count
    isDragging,              \* initSlider: null, 'start' or 'end'
    sliderLabels,            \* #year-start and #year-end
    parishSearch,            \* #parish-search: its value
    parishAutocomplete,      \* #parish-autocomplete: active, items
    addressResult,           \* #address-result: what the panel shows
    addressSearchBtn,        \* #address-search-btn: disabled / loading
    requests,                \* geocodeAddress calls awaiting the network
    voronoiCall,             \* a call of createVoronoiBoundaries and its result
    turf                     \* how the page's turf.voronoi and turf.intersect end

vars == <<parishes, kingsCountyBoundary, currentVoronoiFeatures, filters, ui,
          layers, mapView, popup, parishList, stats, isDragging, sliderLabels,
          parishSearch, parishAutocomplete, addressResult, addressSearchBtn,
          requests, voronoiCall, turf>>

dataVars == <<parishes, kingsCountyBoundary, voronoiCall, turf>>
mapVars == <<currentVoronoiFeatures, layers, popup, parishList, stats>>
searchVars == <<parishSearch, parishAutocomplete>>
addressVars == <<addressResult, addressSearchBtn, requests>>

\* ==================== map functions ====================

\* closedYear without its fallback to MAX_YEAR.
closedYear_NoFallback(p) == p.closed

\* The p.closed || CONFIG.MAX_YEAR of getFilteredParishes.
closedYear(p) == IF p.closed # 0 THEN p.closed ELSE MAX_YEAR

inTimeRange(p, f) == p.est <= f.yearEnd /\ closedYear(p) >= f.yearStart

matchesOrigin(p, f) == f.origin = "all" \/ p.origin = f.origin

PassesFilters(p, f) == inTimeRange(p, f) /\ matchesOrigin(p, f)

\* Array.prototype.filter over a sequence.
RECURSIVE FilterParishes(_, _)
FilterParishes(ps, f) ==
    IF ps = <<>> THEN <<>>
    ELSE (IF PassesFilters(Head(ps), f) THEN <<Head(ps)>> ELSE <<>>)
         \o FilterParishes(Tail(ps), f)

getFilteredParishes(ps, f) == FilterParishes(ps, f)

\* ---- Turf.js on the lattice ----
Dist2(a, b) == (a[1] - b[1]) * (a[1] - b[1]) + (a[2] - b[2]) * (a[2] - b[2])

\* turf.point([p.lng, p.lat])
ParishPoint(p) == <<p.lng, p.lat>>

\* The Voronoi cell of site i inside the bounding box: the points at least
\* as near to site i as to every other site (cells share their borders).
VoronoiCell(sites, i) ==
    {g \in BBoxPoints :
        \A j \in 1..Len(sites) : Dist2(g, sites[i]) <= Dist2(g, sites[j])}

\* How the library calls of a createVoronoiBoundaries run end: turf.voronoi
\* returns cells ("ok"), returns nothing ("null") or throws ("throw"); "holes"
\* are the indices whose cell is missing from voronoi.features; "throws"
\* are the indices at which turf.intersect throws.  Without cells there is
\* no loop, so neither holes nor throws.  Turf computes: on the same page it
\* ends the same way every time, which the variable turf holds.
TurfOk == [voronoi |-> "ok", holes |-> {}, throws |-> {}]

TurfOutcomes ==
    [voronoi : {"null", "throw"}, holes : {{}}, throws : {{}}]
    \cup [voronoi : {"ok"}, holes : {{}, {2}}, throws : SUBSET {1, 3}]

\* turf.intersect(feature, boundary): null when the two do not meet.
intersect(cell, area) ==
    IF cell \cap area = {} THEN Null ELSE Some(cell \cap area)

\* The forEach of createVoronoiBoundaries from index i on.
RECURSIVE ClipCells(_, _, _, _)
ClipCells(activeParishes, area, lib, i) ==
    IF i > Len(activeParishes) THEN <<>>
    ELSE LET sites == [k \in 1..Len(activeParishes) |->
                          ParishPoint(activeParishes[k])]
             clipped == intersect(VoronoiCell(sites, i), area)
             rest == ClipCells(activeParishes, area, lib, i + 1)
         IN  IF i \in lib.holes \/ i \in lib.throws \/ IsNull(clipped)
             THEN rest
             ELSE <<[geometry |-> Val(clipped),
                     properties |-> [id |-> activeParishes[i].id,
                                     name |-> activeParishes[i].name,
                                     parish |-> activeParishes[i]]]>> \o rest

\* createVoronoiBoundaries with one try/catch around the whole loop: a throw
\* of turf.intersect drops every cell.
createVoronoiBoundaries_AbortOnThrow(activeParishes, boundary, lib) ==
    IF Len(activeParishes) < 3 \/ IsNull(boundary) THEN Null
    ELSE IF lib.voronoi # "ok" \/ lib.throws \cap (1..Len(activeParishes)) # {}
    THEN Null
    ELSE Some(ClipCells(activeParishes, Val(boundary), lib, 1))

createVoronoiBoundaries(activeParishes, boundary, lib) ==
    IF Len(activeParishes) < 3 \/ IsNull(boundary) THEN Null
    ELSE IF lib.voronoi # "ok" THEN Null
    ELSE Some(ClipCells(activeParishes, Val(boundary), lib, 1))

\* turf.booleanPointInPolygon(point, feature): the border counts as inside.
booleanPointInPolygon(point, feature) == point \in feature.geometry

\* How the turf.booleanPointInPolygon calls of one findParishForPoint run
\* end: the indices of the features at which the call throws.
PointInPolygonOutcomes == SUBSET {1, 2}

\* feature && feature.geometry
HasGeometry(feature) == "geometry" \in DOMAIN feature

\* feature.properties.parish || null
ParishOf(feature) ==
    IF "parish" \in DOMAIN feature.properties
    THEN Some(feature.properties.parish)
    ELSE Null

\* The for loop of findParishForPoint from feature i on: a feature without
\* geometry is passed over, a feature whose test throws is skipped by the
\* catch, and the first feature whose test says yes ends the loop.
RECURSIVE FirstContaining(_, _, _, _)
FirstContaining(features, point, throws, i) ==
    IF i > Len(features) THEN Null
    ELSE IF ~HasGeometry(features[i]) \/ i \in throws
         THEN FirstContaining(features, point, throws, i + 1)
         ELSE IF booleanPointInPolygon(point, features[i])
              THEN ParishOf(features[i])
              ELSE FirstContaining(features, point, throws, i + 1)

\* findParishForPoint with the coordinates of turf.point in the wrong order.
findParishForPoint_Swapped(cvf, lat, lng, throws) ==
    IF IsNull(cvf) THEN Null
    ELSE FirstContaining(Val(cvf), <<lat, lng>>, throws, 1)

\* findParishForPoint(lat, lng) over the current features cvf, its
\* point-in-polygon tests throwing at the indices throws.
findParishForPoint(cvf, lat, lng, throws) ==
    IF IsNull(cvf) THEN Null
    ELSE FirstContaining(Val(cvf), <<lng, lat>>, throws, 1)

\* ---- updateMap ----
isClosed(p, f) == p.closed # 0 /\ p.closed <= f.yearEnd

\* [...activeParishes].sort((a, b) => a.est - b.est): a stable insertion
\* of each parish after those established no later.
RECURSIVE SortByEst(_)
SortByEst(ps) ==
    IF ps = <<>> THEN <<>>
    ELSE LET last == ps[Len(ps)]
             init == SortByEst(SubSeq(ps, 1, Len(ps) - 1))
             k == Cardinality({i \in 1..Len(init) : init[i].est <= last.est})
         IN  SubSeq(init, 1, k) \o <<last>> \o SubSeq(init, k + 1, Len(init))

\* boundariesWanted without the showBoundaries test.
boundariesWanted_IgnoreSwitch(showBoundaries, activeParishes) ==
    Len(activeParishes) >= 3

\* The condition under which updateMap builds the catchment areas.
boundariesWanted(showBoundaries, activeParishes) ==
    showBoundaries /\ Len(activeParishes) >= 3

\* What updateMap puts on the map and in the sidebar for the given data,
\* filters and boundary switch, its Turf calls ending as lib says.
MapAfterUpdate(ps, boundary, f, showBoundaries, lib) ==
    LET activeParishes == getFilteredParishes(ps, f)
        voronoi == IF boundariesWanted(showBoundaries, activeParishes)
                   THEN createVoronoiBoundaries(activeParishes, boundary, lib)
                   ELSE Null
        sorted == SortByEst(activeParishes)
    IN  [currentVoronoiFeatures |-> voronoi,
         voronoiLayer |-> IF IsNull(voronoi) THEN <<>> ELSE Val(voronoi),
         markers |-> [i \in 1..Len(activeParishes) |->
                         [latlng |-> <<activeParishes[i].lat, activeParishes[i].lng>>,
                          parishId |-> activeParishes[i].id]],
         stats |-> [active |-> Cardinality({i \in 1..Len(activeParishes) :
                                   ~isClosed(activeParishes[i], f)}),
                    closed |-> Cardinality({i \in 1..Len(activeParishes) :
                                   isClosed(activeParishes[i], f)})],
         parishList |-> [i \in 1..Len(sorted) |-> sorted[i].id]]

\* updateMap run with filters f and switch showBoundaries in force, its
\* Turf calls ending as the page's Turf makes them.  Clearing the marker
\* layer removes the markers, which closes a popup bound to one.
updateMap(f, showBoundaries) ==
    \E m \in {MapAfterUpdate(parishes, kingsCountyBoundary, f, showBoundaries, turf)} :
        /\ currentVoronoiFeatures' = m.currentVoronoiFeatures
        /\ layers' = [layers EXCEPT !.markers = m.markers,
                                    !.voronoi = m.voronoiLayer]
        /\ stats' = m.stats
        /\ parishList' = m.parishList
        /\ popup' = IF ~IsNull(popup) /\ Val(popup).kind = "marker"
                    THEN Null ELSE popup

\* ==================== selecting a parish ====================
FindParish(ps, id) ==
    IF \E i \in 1..Len(ps) : ps[i].id = id
    THEN Some(ps[CHOOSE i \in 1..Len(ps) :
                    /\ ps[i].id = id
                    /\ \A j \in 1..(i - 1) : ps[j].id # id])
    ELSE Null

HasMarker(id) == \E i \in 1..Len(layers.markers) : layers.markers[i].parishId = id

\* selectParish(id): setView on the parish, then openPopup on every marker of
\* the marker layer that carries the id.
selectParish(id) ==
    LET parish == FindParish(parishes, id)
    IN  IF IsNull(parish)
        THEN UNCHANGED <<mapView, popup>>
        ELSE /\ mapView' = [center |-> <<Val(parish).lat, Val(parish).lng>>,
                            zoom |-> MAP_DETAIL_ZOOM]
             /\ popup' = IF HasMarker(id)
                         THEN Some([kind |-> "marker", id |-> id])
                         ELSE popup

\* A click on an item of the sidebar list (updateParishList's handler).
ClickParishItem(id) ==
    /\ \E i \in 1..Len(parishList) : parishList[i] = id
    /\ selectParish(id)
    /\ UNCHANGED <<dataVars, currentVoronoiFeatures, layers, parishList, stats,
                   filters, ui, isDragging, sliderLabels, searchVars, addressVars>>

\* ==================== parish search ====================
Texts == UNION {[1..n -> Chars] : n \in 0..MaxQueryLen}

searchText(p) == toLowerCase(p.name \o <<" ">> \o p.address)

MatchesQuery(p, queryWords) ==
    \A k \in 1..Len(queryWords) : includes(searchText(p), queryWords[k])

RECURSIVE FilterMatches(_, _)
FilterMatches(ps, queryWords) ==
    IF ps = <<>> THEN <<>>
    ELSE (IF MatchesQuery(Head(ps), queryWords) THEN <<Head(ps)>> ELSE <<>>)
         \o FilterMatches(Tail(ps), queryWords)

\* slice keeping one element too many.
slice_OneMore(s, n) == SubSeq(s, 1, Min(n + 1, Len(s)))

\* Array.prototype.slice(0, n)
slice(s, n) == SubSeq(s, 1, Min(n, Len(s)))

\* AppState.parishes.filter(...).slice(0, AUTOCOMPLETE_MAX_RESULTS)
matches(ps, query) ==
    slice(FilterMatches(ps, SplitWords(query, <<>>)), AUTOCOMPLETE_MAX_RESULTS)

\* The 'input' handler of #parish-search, the box now holding value.
ParishSearchInput(value) ==
    LET query == trim(toLowerCase(value))
        found == matches(parishes, query)
    IN  /\ parishSearch' = value
        /\ parishAutocomplete' =
              IF Len(query) < AUTOCOMPLETE_MIN_CHARS
              THEN [parishAutocomplete EXCEPT !.active = FALSE]
              ELSE IF Len(found) > 0
                   THEN [active |-> TRUE,
                         items |-> [i \in 1..Len(found) |-> found[i].id]]
                   ELSE [parishAutocomplete EXCEPT !.active = FALSE]
        /\ UNCHANGED <<dataVars, mapVars, mapView, filters, ui, isDragging,
                       sliderLabels, addressVars>>

\* The timer set by the 'blur' handler of #parish-search.
ParishSearchBlurTimeout ==
    /\ parishAutocomplete' = [parishAutocomplete EXCEPT !.active = FALSE]
    /\ UNCHANGED <<dataVars, mapVars, mapView, filters, ui, isDragging,
                   sliderLabels, parishSearch, addressVars>>

\* A click on a suggestion of the (visible) autocomplete box.
ClickAutocompleteItem(id) ==
    /\ parishAutocomplete.active
    /\ \E i \in 1..Len(parishAutocomplete.items) : parishAutocomplete.items[i] = id
    /\ selectParish(id)
    /\ parishSearch' = <<>>
    /\ parishAutocomplete' = [parishAutocomplete EXCEPT !.active = FALSE]
    /\ UNCHANGED <<dataVars, currentVoronoiFeatures, layers, parishList, stats,
                   filters, ui, isDragging, sliderLabels, addressVars>>

\* ==================== filter controls ====================
\* A click on a filter chip of #origin-filters.
ClickOriginChip(origin) ==
    /\ filters' = [filters EXCEPT !.origin = origin]
    /\ updateMap(filters', ui.showBoundaries)
    /\ UNCHANGED <<dataVars, ui, mapView, isDragging, sliderLabels, searchVars,
                   addressVars>>

\* getYear(percent), the percentage being pnum / SliderWidth: Math.round
\* rounds a half up.
getYear(pnum) ==
    MIN_YEAR + (2 * pnum * (MAX_YEAR - MIN_YEAR) + 100 * SliderWidth)
                   \div (200 * SliderWidth)

\* clampPercent without the clamping.
clampPercent_Unclamped(x) == 100 * x

\* Math.max(0, Math.min(100, (x / rect.width) * 100)), times SliderWidth.
clampPercent(x) == Max(0, Min(100 * SliderWidth, 100 * x))

\* The pointer events: a mouse event carries clientX, a touch event has no
\* clientX and carries touches[0].clientX.
PointerKinds == {"mouse", "touch"}
ClientXs == 0..(SliderLeft + SliderWidth + 1)

\* handleDrag(e).  On a mouse event with clientX = 0 the expression
\* e.clientX || e.touches[0].clientX reads touches of undefined and the
\* handler ends with a TypeError before it assigns anything.
handleDrag(kind, clientX) ==
    /\ IF isDragging = "none" \/ (kind = "mouse" /\ clientX = 0)
       THEN UNCHANGED <<filters, sliderLabels>>
       ELSE LET year == getYear(clampPercent(clientX - SliderLeft))
            IN  /\ filters' =
                      IF isDragging = "start"
                      THEN [filters EXCEPT !.yearStart = Min(year, filters.yearEnd - 1)]
                      ELSE [filters EXCEPT !.yearEnd = Max(year, filters.yearStart + 1)]
                /\ sliderLabels' = [start |-> filters'.yearStart,
                                    end |-> filters'.yearEnd]
    /\ UNCHANGED <<dataVars, mapVars, mapView, ui, isDragging, searchVars,
                   addressVars>>

startDrag(thumb) ==
    /\ isDragging' = thumb
    /\ UNCHANGED <<dataVars, mapVars, mapView, filters, ui, sliderLabels,
                   searchVars, addressVars>>

\* endDrag without its updateMap call.
endDrag_NoUpdate ==
    /\ isDragging' = "none"
    /\ UNCHANGED <<dataVars, mapVars, mapView, filters, ui, sliderLabels,
                   searchVars, addressVars>>

endDrag ==
    /\ IF isDragging # "none"
       THEN /\ isDragging' = "none"
            /\ updateMap(filters, ui.showBoundaries)
       ELSE UNCHANGED <<isDragging, mapVars>>
    /\ UNCHANGED <<dataVars, mapView, filters, ui, sliderLabels, searchVars,
                   addressVars>>

\* The click handler of #toggle-boundaries.
ToggleBoundaries ==
    /\ ui' = [ui EXCEPT !.showBoundaries = ~ui.showBoundaries]
    /\ updateMap(filters, ui'.showBoundaries)
    /\ UNCHANGED <<dataVars, mapView, filters, isDragging, sliderLabels,
                   searchVars, addressVars>>

\* ==================== address search ====================
setSearchLoading(isLoading) ==
    addressSearchBtn' = [disabled |-> isLoading, loading |-> isLoading]

Panel(title, detail) == [active |-> TRUE, title |-> title, detail |-> detail]

\* Trimmed lengths of the text in #address-search.
QueryLengths == 0..ADDRESS_MIN_CHARS

\* performAddressSearch() with a query of queryLen characters: too short a
\* query is refused; otherwise the button goes to loading and
\* geocodeAddress runs up to its fetch.
performAddressSearch(queryLen) ==
    /\ IF queryLen < ADDRESS_MIN_CHARS
       THEN /\ addressResult' = Panel("Error", "Please enter a full address")
            /\ UNCHANGED <<addressSearchBtn, requests>>
       ELSE /\ Len(requests) < MaxRequests
            /\ setSearchLoading(TRUE)
            /\ addressResult' = Panel("Searching...", "")
            /\ requests' = Append(requests, [phase |-> "fetch"])
    /\ UNCHANGED <<dataVars, mapVars, mapView, filters, ui, isDragging,
                   sliderLabels, searchVars>>

\* The 'click' handler of the search button; a disabled button gets no click.
ClickAddressSearchBtn(queryLen) ==
    /\ ~addressSearchBtn.disabled
    /\ performAddressSearch(queryLen)

\* The 'keydown' handler of #address-search, for the Enter key.
AddressSearchEnter(queryLen) == performAddressSearch(queryLen)

RemoveAt(s, i) == SubSeq(s, 1, i - 1) \o SubSeq(s, i + 1, Len(s))

\* response.status values, and response.ok.
Statuses == {200, 429, 500}
ok(status) == status >= 200 /\ status <= 299
StatusWord(status) ==
    IF status = 200 THEN "200" ELSE IF status = 429 THEN "429" ELSE "500"

\* Errors, as name and message (a sequence of words).  fetch rejects with an
\* AbortError when the timeout aborts it, and with a TypeError whose message
\* is the browser's own when the network fails.
AbortError == [name |-> "AbortError", message |-> <<"The", "user", "aborted", "a", "request.">>]
FetchFailureMessages ==
    { <<"Failed", "to", "fetch">>,
      <<"NetworkError", "when", "attempting", "to", "fetch", "resource.">>,
      <<"Load", "failed">> }
FetchFailures == {[name |-> "TypeError", message |-> m] : m \in FetchFailureMessages}
HttpError(status) == [name |-> "Error", message |-> <<"HTTP", StatusWord(status)>>]
ParseError == [name |-> "SyntaxError", message |-> <<"Unexpected", "token">>]

\* The title chosen by the catch block of geocodeAddress.
errorTitle(error) ==
    IF error.name = "AbortError" THEN "Timeout"
    ELSE IF includes(error.message, <<"Failed", "to", "fetch">>) THEN "Network Error"
    ELSE "Error"

\* The catch block of geocodeAddress for request i.
CatchGeocodeError(i, error) ==
    /\ setSearchLoading(FALSE)
    /\ addressResult' = Panel(errorTitle(error), "")
    /\ requests' = RemoveAt(requests, i)
    /\ UNCHANGED <<dataVars, mapVars, mapView, filters, ui, isDragging,
                   sliderLabels, searchVars>>

\* The fetch of request i is rejected: aborted by the timeout, or failed.
FetchRejects(i, error) ==
    /\ i \in 1..Len(requests)
    /\ requests[i].phase = "fetch"
    /\ CatchGeocodeError(i, error)

\* The fetch of request i resolves with a response of the given status.
FetchResolves(i, status) ==
    /\ i \in 1..Len(requests)
    /\ requests[i].phase = "fetch"
    /\ IF status = 429
       THEN /\ setSearchLoading(FALSE)
            /\ addressResult' = Panel("Rate Limited", "")
            /\ requests' = RemoveAt(requests, i)
            /\ UNCHANGED <<dataVars, mapVars, mapView, filters, ui, isDragging,
                           sliderLabels, searchVars>>
       ELSE IF ~ok(status)
       THEN CatchGeocodeError(i, HttpError(status))
       ELSE /\ requests' = [requests EXCEPT ![i].phase = "body"]
            /\ UNCHANGED <<dataVars, mapVars, mapView, filters, ui, isDragging,
                           sliderLabels, searchVars, addressResult,
                           addressSearchBtn>>

\* showAddressResult(lat, lng, displayName): the search marker layer is
\* cleared (which closes a popup bound to the old search marker), the new
\* marker is added and the parish is looked up, the point-in-polygon tests
\* of the lookup ending in any of the ways they can.
showAddressResult(lat, lng) ==
    \E throws \in PointInPolygonOutcomes :
        LET parish == findParishForPoint(currentVoronoiFeatures, lat, lng, throws)
        IN  /\ layers' = [layers EXCEPT !.searchMarker = <<<<lat, lng>>>>]
            /\ IF ~IsNull(parish)
               THEN /\ addressResult' = Panel("Your Parish", Val(parish).name)
                    /\ popup' = Some([kind |-> "search", id |-> Val(parish).id])
               ELSE /\ addressResult' = Panel("Location Found",
                                              "Outside Parish Boundaries")
                    /\ popup' = IF ~IsNull(popup) /\ Val(popup).kind = "search"
                                THEN Null ELSE popup
            /\ mapView' = [center |-> <<lat, lng>>, zoom |-> MAP_DETAIL_ZOOM]

\* Places the geocoder answers with, as [lat, lng].
GeocodePoints == {<<1, 1>>, <<2, 2>>, <<0, 3>>}
GeocodeResults == {<<>>} \cup {<<pt>> : pt \in GeocodePoints}

\* response.json() of request i resolves with the result list.
BodyArrives(i, results) ==
    /\ i \in 1..Len(requests)
    /\ requests[i].phase = "body"
    /\ setSearchLoading(FALSE)
    /\ requests' = RemoveAt(requests, i)
    /\ IF Len(results) > 0
       THEN /\ showAddressResult(results[1][1], results[1][2])
            /\ UNCHANGED <<currentVoronoiFeatures, parishList, stats>>
       ELSE /\ addressResult' = Panel("Not Found", "")
            /\ UNCHANGED <<mapVars, mapView>>
    /\ UNCHANGED <<dataVars, filters, ui, isDragging, sliderLabels, searchVars>>

\* response.json() of request i rejects.
BodyFails(i) ==
    /\ i \in 1..Len(requests)
    /\ requests[i].phase = "body"
    /\ CatchGeocodeError(i, ParseError)

\* ==================== initialization ====================
DefaultFilters == [yearStart |-> MIN_YEAR, yearEnd |-> MAX_YEAR, origin |-> "all"]

\* The page once initApp has run: both data files fetched (or not), Turf
\* behaving in one of the ways libs, the map drawn by initMap's updateMap,
\* the slider drawn by updateSliderVisuals.
InitWith(lists, boundaries, libs) ==
    /\ parishes \in lists
    /\ kingsCountyBoundary \in boundaries
    /\ filters = DefaultFilters
    /\ ui = [showBoundaries |-> TRUE]
    /\ turf \in libs
    /\ LET m == MapAfterUpdate(parishes, kingsCountyBoundary, DefaultFilters,
                               TRUE, turf)
       IN  /\ currentVoronoiFeatures = m.currentVoronoiFeatures
           /\ layers = [markers |-> m.markers, voronoi |-> m.voronoiLayer,
                        searchMarker |-> <<>>]
           /\ stats = m.stats
           /\ parishList = m.parishList
    /\ mapView = [center |-> MAP_CENTER, zoom |-> MAP_DEFAULT_ZOOM]
    /\ popup = Null
    /\ isDragging = "none"
    /\ sliderLabels = [start |-> MIN_YEAR, end |-> MAX_YEAR]
    /\ parishSearch = <<>>
    /\ parishAutocomplete = [active |-> FALSE, items |-> <<>>]
    /\ addressResult = [active |-> FALSE, title |-> "", detail |-> ""]
    /\ addressSearchBtn = [disabled |-> FALSE, loading |-> FALSE]
    /\ requests = <<>>

Init == InitWith(ParishLists, Boundaries, TurfOutcomes) /\ voronoiCall = Null

\* The slider, the chips and the boundary switch.
FilterStep ==
    \/ \E thumb \in {"start", "end"} : startDrag(thumb)
    \/ \E kind \in PointerKinds, clientX \in ClientXs : handleDrag(kind, clientX)
    \/ endDrag
    \/ \E origin \in Origins : ClickOriginChip(origin)
    \/ ToggleBoundaries

\* The sidebar list.
ListStep == \E id \in 1..Len(parishes) : ClickParishItem(parishes[id].id)

\* The parish search box.
SearchStep ==
    \/ \E value \in Texts : ParishSearchInput(value)
    \/ ParishSearchBlurTimeout

\* The suggestions of the parish search box.
SuggestionStep == \E i \in 1..Len(parishes) : ClickAutocompleteItem(parishes[i].id)

\* The address search and the geocoder's answers.
AddressStep ==
    \/ \E queryLen \in QueryLengths : ClickAddressSearchBtn(queryLen)
    \/ \E queryLen \in QueryLengths : AddressSearchEnter(queryLen)
    \/ \E i \in 1..MaxRequests, error \in {AbortError} \cup FetchFailures :
          FetchRejects(i, error)
    \/ \E i \in 1..MaxRequests, status \in Statuses : FetchResolves(i, status)
    \/ \E i \in 1..MaxRequests, results \in GeocodeResults : BodyArrives(i, results)
    \/ \E i \in 1..MaxRequests : BodyFails(i)

\* The map page under its filter controls.
Next == FilterStep

Spec == Init /\ [][Next]_vars

\* Typing into the parish search box, over a failed load, a short list and a list
\* longer than AUTOCOMPLETE_MAX_RESULTS, on a page whose Turf calls succeed.
InitSearch ==
    /\ InitWith({<<>>, SmallParishes, LargeParishes}, {Some(KingsCountyArea)},
                {TurfOk})
    /\ voronoiCall = Null

SpecSearch == InitSearch /\ [][SearchStep]_vars

\* Loaded data on a page whose Turf calls end in any of the ways they can.
InitLoaded ==
    /\ InitWith({SmallParishes}, {Some(KingsCountyArea)}, TurfOutcomes)
    /\ voronoiCall = Null

\* The parishes loaded and the county outline not: loadBoundaryData caught a
\* failed fetch, so that no catchment area is ever drawn.
InitNoBoundary ==
    /\ InitWith({SmallParishes}, {Null}, {TurfOk})
    /\ voronoiCall = Null

\* Selecting parishes from the list and from the suggestions while the
\* origin filter changes.
NextSelect ==
    \/ \E origin \in Origins : ClickOriginChip(origin)
    \/ ListStep
    \/ SearchStep
    \/ SuggestionStep

SpecSelect == InitNoBoundary /\ [][NextSelect]_vars

\* Address searches while the origin filter and the boundary switch change.
NextAddress ==
    \/ \E origin \in Origins : ClickOriginChip(origin)
    \/ ToggleBoundaries
    \/ AddressStep

SpecAddress == InitLoaded /\ [][NextAddress]_vars

\* The timer that geocodeAddress sets before its fetch (setTimeout of
\* controller.abort()) fires while the fetch is pending, and the fetch
\* rejects with an AbortError.  The timer is cleared as soon as the fetch
\* resolves, so it never fires for a request that awaits its body.
TimeoutAborts == \E i \in 1..MaxRequests : FetchRejects(i, AbortError)

\* Address searches where the browser runs a timer that is due.  Nothing
\* obliges the user to act or the network to answer.
SpecAddressFair == SpecAddress /\ WF_vars(TimeoutAborts)

\* ---- createVoronoiBoundaries as a function of its inputs ----
\* The lists that keep some elements of ps, in order.
RECURSIVE SubLists(_)
SubLists(ps) ==
    IF ps = <<>> THEN {<<>>}
    ELSE LET rest == SubLists(Tail(ps))
         IN  rest \cup {<<Head(ps)>> \o r : r \in rest}

\* The argument of a call.
VoronoiInputs == [activeParishes : SubLists(SmallParishes)]

\* A call of createVoronoiBoundaries about to be made, with its argument, on
\* a page whose county outline is loaded or not and whose Turf calls end in
\* any of the ways they can: the call reads the outline from
\* AppState.kingsCountyBoundary.
InitVoronoi ==
    /\ InitWith({SmallParishes}, Boundaries, TurfOutcomes)
    /\ \E in \in VoronoiInputs :
          voronoiCall = Some([in |-> in, done |-> FALSE, result |-> Null])

CallCreateVoronoi ==
    /\ ~IsNull(voronoiCall)
    /\ ~Val(voronoiCall).done
    /\ LET in == Val(voronoiCall).in
       IN  voronoiCall' =
              Some([in |-> in, done |-> TRUE,
                    result |-> createVoronoiBoundaries(in.activeParishes,
                                                       kingsCountyBoundary,
                                                       turf)])
    /\ UNCHANGED <<parishes, kingsCountyBoundary, turf, mapVars, mapView, filters, ui,
                   isDragging, sliderLabels, searchVars, addressVars>>

NextVoronoi == CallCreateVoronoi

SpecVoronoi == InitVoronoi /\ [][NextVoronoi]_vars

\* ==================== properties ====================
MarkerIds == [i \in 1..Len(layers.markers) |-> layers.markers[i].parishId]

\* The parish exists at some year of the range and has the selected origin,
\* in the words of the filter's description.
ExistsInRange(p, f) ==
    /\ p.est <= f.yearEnd
    /\ (IF p.closed = 0 THEN MAX_YEAR ELSE p.closed) >= f.yearStart
    /\ (f.origin = "all" \/ p.origin = f.origin)

\* C1: getFilteredParishes returns exactly the loaded parishes, each once and
\* in data order, that were established by yearEnd, had not closed before
\* yearStart (a parish with no closing year counts as closing in MAX_YEAR)
\* and have the selected origin, when one is selected.
C1_FilteredExactly ==
    LET r == getFilteredParishes(parishes, filters)
        wanted == {i \in 1..Len(parishes) : ExistsInRange(parishes[i], filters)}
    IN  /\ Len(r) = Cardinality(wanted)
        /\ \A i \in wanted : \E k \in 1..Len(r) : r[k] = parishes[i]
        /\ \A k \in 1..Len(r) : \E i \in wanted : r[k] = parishes[i]
        /\ \A k \in 1..(Len(r) - 1) : r[k].id < r[k + 1].id

\* C1 witness: a range and an origin that keep some parishes and drop others.
C1_Witness ==
    /\ filters.origin = "German"
    /\ filters.yearStart > MIN_YEAR
    /\ filters.yearEnd < MAX_YEAR
    /\ Len(getFilteredParishes(parishes, filters)) \in 1..(Len(parishes) - 1)

\* C2: whenever no drag is in progress, the markers on the map are those of
\* getFilteredParishes for the current filters, and the slider labels show
\* the current years.
C2_MarkersMatchFilters ==
    isDragging = "none" =>
        LET r == getFilteredParishes(parishes, filters)
        IN  /\ MarkerIds = [i \in 1..Len(r) |-> r[i].id]
            /\ sliderLabels = [start |-> filters.yearStart, end |-> filters.yearEnd]

\* C2 witness: a released thumb after a drag that changed the range, with an
\* origin selected and the boundaries switched off.
C2_Witness ==
    /\ isDragging = "none"
    /\ filters.yearEnd < MAX_YEAR
    /\ filters.origin # "all"
    /\ ~ui.showBoundaries
    /\ Len(layers.markers) \in 1..(Len(parishes) - 1)

\* C10: the selected range always satisfies
\* MIN_YEAR <= yearStart < yearEnd <= MAX_YEAR, and no step taken while no
\* thumb is being dragged (a pointer move among them) changes either year.
C10_RangeOrdered ==
    /\ [](/\ MIN_YEAR <= filters.yearStart
          /\ filters.yearStart < filters.yearEnd
          /\ filters.yearEnd <= MAX_YEAR)
    /\ [][isDragging = "none" =>
            /\ filters'.yearStart = filters.yearStart
            /\ filters'.yearEnd = filters.yearEnd]_vars

\* C10 witness: the start thumb was dragged past the end thumb and stopped
\* one year short of it, both having left their first positions.
C10_Witness ==
    /\ filters.yearStart = filters.yearEnd - 1
    /\ filters.yearStart > MIN_YEAR
    /\ filters.yearEnd < MAX_YEAR

\* A step that runs updateMap.
MapUpdateStep ==
    \/ ToggleBoundaries
    \/ endDrag
    \/ \E origin \in Origins : ClickOriginChip(origin)

CatchmentsOnlyIfWanted ==
    layers.voronoi # <<>> =>
        /\ ui.showBoundaries
        /\ Len(getFilteredParishes(parishes, filters)) >= 3
        /\ ~IsNull(kingsCountyBoundary)

HiddenMeansNone ==
    ~ui.showBoundaries => (layers.voronoi = <<>> /\ IsNull(currentVoronoiFeatures))

\* After a toggle click, a second toggle click brings back the switch and the
\* catchment polygons shown before the first.
SecondToggleRestores ==
    LET again == MapAfterUpdate(parishes', kingsCountyBoundary', filters',
                                ~ui'.showBoundaries, turf')
    IN  /\ (~ui'.showBoundaries) = ui.showBoundaries
        /\ again.voronoiLayer = layers.voronoi

\* C4 (as stated): after every toggle click and every later map update,
\* catchment polygons are on the map only if showBoundaries is true, at least
\* 3 parishes pass the filters and the county boundary is loaded; whenever
\* showBoundaries is false the catchment layer is empty and
\* currentVoronoiFeatures is null; and two consecutive toggle clicks restore
\* showBoundaries and the displayed catchment polygons.
C4_Original ==
    /\ [][MapUpdateStep => CatchmentsOnlyIfWanted']_vars
    /\ []HiddenMeansNone
    /\ [][ToggleBoundaries => SecondToggleRestores]_vars

\* C4 (amended): the same, the two toggle clicks restoring the displayed
\* catchment polygons when they are made while no slider drag is in progress.
C4_ToggleControlsCatchments ==
    /\ [][MapUpdateStep => CatchmentsOnlyIfWanted']_vars
    /\ []HiddenMeansNone
    /\ [][(ToggleBoundaries /\ isDragging = "none") => SecondToggleRestores]_vars

\* C4 witness: the boundaries were switched off, with no drag in progress,
\* while the filters and the data would otherwise have shown catchments.
C4_Witness ==
    /\ ~ui.showBoundaries
    /\ isDragging = "none"
    /\ filters # DefaultFilters
    /\ layers.voronoi = <<>>
    /\ ~IsNull(MapAfterUpdate(parishes, kingsCountyBoundary, filters, TRUE, turf)
                   .currentVoronoiFeatures)

\* The indices of the current features that contain the point (lng, lat).
Containing(point) ==
    IF IsNull(currentVoronoiFeatures) THEN {}
    ELSE {k \in 1..Len(Val(currentVoronoiFeatures)) :
             point \in Val(currentVoronoiFeatures)[k].geometry}

\* The parish the claim names for a point: that of the first of the given
\* indices of current features, none when there is no index.
ParishOfFirst(indices) ==
    IF indices = {} THEN Null
    ELSE LET first == CHOOSE k \in indices : \A j \in indices : k <= j
         IN  Some(Val(currentVoronoiFeatures)[first].properties.parish)

\* currentVoronoiFeatures is non-null only if the most recent map update ran
\* with showBoundaries true and put at least 3 parishes (markers) on the map.
FeaturesOnlyIfDrawn ==
    ~IsNull(currentVoronoiFeatures) =>
        (ui.showBoundaries /\ Len(layers.markers) >= 3)

\* C7 (as stated): findParishForPoint returns null when there are no current
\* features or none contains the point, and otherwise the parish of the first
\* current feature containing it; and currentVoronoiFeatures is non-null only
\* if the most recent map update ran with showBoundaries true and put at
\* least 3 parishes on the map.
C7_Original ==
    /\ \A point \in BBoxPoints, throws \in PointInPolygonOutcomes :
          findParishForPoint(currentVoronoiFeatures, point[2], point[1], throws)
              = ParishOfFirst(Containing(point))
    /\ FeaturesOnlyIfDrawn

\* C7 (amended): findParishForPoint returns the parish of the first current
\* feature, in feature order, whose point-in-polygon test ends without
\* throwing and contains the point, and null when there are no current
\* features or no such feature; and currentVoronoiFeatures is non-null only
\* if the most recent map update ran with showBoundaries true and put at
\* least 3 parishes on the map.
C7_FindParishForPoint ==
    /\ \A point \in BBoxPoints, throws \in PointInPolygonOutcomes :
          findParishForPoint(currentVoronoiFeatures, point[2], point[1], throws)
              = ParishOfFirst(Containing(point) \ throws)
    /\ FeaturesOnlyIfDrawn

\* C7 witness: current features after a filter change, with a point in no
\* catchment, and a point on the border of two catchments for which the test
\* of the first throws, so that the parish of the second is returned.
C7_Witness ==
    /\ ~IsNull(currentVoronoiFeatures)
    /\ filters # DefaultFilters
    /\ \E point \in BBoxPoints : Containing(point) = {}
    /\ \E point \in BBoxPoints, throws \in PointInPolygonOutcomes :
          /\ Cardinality(Containing(point)) >= 2
          /\ throws \cap Containing(point) # {}
          /\ Containing(point) \ throws # {}
          /\ findParishForPoint(currentVoronoiFeatures, point[2], point[1], throws)
                # findParishForPoint(currentVoronoiFeatures, point[2], point[1], {})
          /\ ~IsNull(findParishForPoint(currentVoronoiFeatures, point[2], point[1],
                                        throws))

\* ---- parish search ----
\* The words of a query: its maximal runs of characters other than spaces.
WordsOf(query) ==
    {SubSeq(query, ab[1], ab[2]) :
        ab \in {x \in (1..Len(query)) \X (1..Len(query)) :
                  /\ x[1] <= x[2]
                  /\ \A k \in x[1]..x[2] : query[k] # " "
                  /\ (x[1] = 1 \/ query[x[1] - 1] = " ")
                  /\ (x[2] = Len(query) \/ query[x[2] + 1] = " ")}}

\* The indices of the loaded parishes whose lower-cased "name address" text
\* contains every word of the query.
MatchingIndices(query) ==
    {i \in 1..Len(parishes) :
        \A w \in WordsOf(query) :
            includes(toLowerCase(parishes[i].name \o <<" ">> \o parishes[i].address), w)}

\* The ids of the n first elements of a set of indices, in data order.
RECURSIVE FirstIds(_, _)
FirstIds(indices, n) ==
    IF indices = {} \/ n = 0 THEN <<>>
    ELSE LET least == CHOOSE i \in indices : \A j \in indices : i <= j
         IN  <<parishes[least].id>> \o FirstIds(indices \ {least}, n - 1)

\* What the claim has the box show for the text typed.
ExpectedSuggestions(value) ==
    LET query == trim(toLowerCase(value))
    IN  IF Len(query) < AUTOCOMPLETE_MIN_CHARS THEN <<>>
        ELSE FirstIds(MatchingIndices(query), AUTOCOMPLETE_MAX_RESULTS)

ShownSuggestions ==
    IF parishAutocomplete.active THEN parishAutocomplete.items ELSE <<>>

\* C5: after every input into the parish search box, the suggestions shown
\* are the first AUTOCOMPLETE_MAX_RESULTS, in data order, of the loaded
\* parishes whose lower-cased "name address" text contains every word of the
\* trimmed, lower-cased query, when that query has at least
\* AUTOCOMPLETE_MIN_CHARS characters; the box is hidden when the query is
\* shorter or no parish matches.
C5_Suggestions ==
    [][ParishSearchInput(parishSearch') =>
          /\ ShownSuggestions' = ExpectedSuggestions(parishSearch')
          /\ parishAutocomplete'.active = (ExpectedSuggestions(parishSearch') # <<>>)]_vars

\* C5 witness: a query typed with an upper-case letter that more than
\* AUTOCOMPLETE_MAX_RESULTS parishes match, some parish not matching it.
C5_Witness ==
    /\ parishAutocomplete.active
    /\ Len(parishAutocomplete.items) = AUTOCOMPLETE_MAX_RESULTS
    /\ \E i \in 1..Len(parishSearch) : parishSearch[i] = "B"
    /\ Cardinality(MatchingIndices(trim(toLowerCase(parishSearch))))
          \in (AUTOCOMPLETE_MAX_RESULTS + 1)..(Len(parishes) - 1)

\* ---- createVoronoiBoundaries ----
\* C8: createVoronoiBoundaries returns null for fewer than 3 parishes, for a
\* boundary not loaded and for a failed Voronoi generation; otherwise a
\* collection holding, in index order, for each index i whose cell exists,
\* whose intersection does not throw and is not empty, one feature: the
\* intersection of cell i with the county, carrying the id, name and record
\* of parish i; the other cells are skipped.
C8_VoronoiBoundaries ==
    (~IsNull(voronoiCall) /\ Val(voronoiCall).done) =>
        LET in == Val(voronoiCall).in
            a == in.activeParishes
            r == Val(voronoiCall).result
            sites == [k \in 1..Len(a) |-> <<a[k].lng, a[k].lat>>]
            kept == {i \in 1..Len(a) :
                        /\ i \notin turf.holes
                        /\ i \notin turf.throws
                        /\ VoronoiCell(sites, i) \cap Val(kingsCountyBoundary) # {}}
            rank(i) == Cardinality({j \in kept : j <= i})
        IN  IF Len(a) < 3 \/ IsNull(kingsCountyBoundary) \/ turf.voronoi # "ok"
            THEN IsNull(r)
            ELSE /\ ~IsNull(r)
                 /\ Len(Val(r)) = Cardinality(kept)
                 /\ Len(Val(r)) <= Len(a)
                 /\ \A i \in kept :
                       /\ Val(r)[rank(i)].geometry =
                             VoronoiCell(sites, i) \cap Val(kingsCountyBoundary)
                       /\ Val(r)[rank(i)].properties =
                             [id |-> a[i].id, name |-> a[i].name, parish |-> a[i]]

\* C8 witness: a call in which one intersection throws and another is empty,
\* and the remaining cells are returned.
C8_Witness ==
    /\ ~IsNull(voronoiCall)
    /\ Val(voronoiCall).done
    /\ ~IsNull(Val(voronoiCall).result)
    /\ LET in == Val(voronoiCall).in
           a == in.activeParishes
           sites == [k \in 1..Len(a) |-> <<a[k].lng, a[k].lat>>]
       IN  /\ turf.throws = {1}
           /\ turf.holes = {}
           /\ \E i \in 2..Len(a) : VoronoiCell(sites, i) \cap Val(kingsCountyBoundary) = {}
           /\ Len(Val(Val(voronoiCall).result)) = Len(a) - 2
           /\ Len(Val(Val(voronoiCall).result)) >= 2

\* ---- address lookup ----
\* C3: whenever the geocoder returns a point that lies inside the county
\* outline, the address result is 'Your Parish' and names the parish of a
\* current catchment area containing the point.
C3_AddressFindsParish ==
    [][\A i \in 1..MaxRequests, pt \in GeocodePoints :
          (/\ BodyArrives(i, <<pt>>)
           /\ ~IsNull(kingsCountyBoundary)
           /\ <<pt[2], pt[1]>> \in Val(kingsCountyBoundary))
          => /\ addressResult'.title = "Your Parish"
             /\ \E k \in Containing(<<pt[2], pt[1]>>) :
                   addressResult'.detail =
                       Val(currentVoronoiFeatures)[k].properties.name]_vars

\* An outcome of a search that is reported under the given title and leaves
\* the search marker, the map view, the filters and the catchment features
\* as they were.
ReportedAs(title) ==
    /\ addressResult'.title = title
    /\ layers'.searchMarker = layers.searchMarker
    /\ mapView' = mapView
    /\ filters' = filters
    /\ currentVoronoiFeatures' = currentVoronoiFeatures

\* C6: every failed address search is reported and changes nothing else:
\* HTTP 429 as 'Rate Limited', a timeout abort as 'Timeout', a fetch failure
\* as 'Network Error', any other non-OK response or exception as 'Error',
\* an empty result list as 'Not Found'.
C6_FailuresReported ==
    [][\A i \in 1..MaxRequests :
          /\ FetchResolves(i, 429) => ReportedAs("Rate Limited")
          /\ FetchRejects(i, AbortError) => ReportedAs("Timeout")
          /\ \A error \in FetchFailures :
                FetchRejects(i, error) => ReportedAs("Network Error")
          /\ \A status \in {s \in Statuses : ~ok(s) /\ s # 429} :
                FetchResolves(i, status) => ReportedAs("Error")
          /\ BodyFails(i) => ReportedAs("Error")
          /\ BodyArrives(i, <<>>) => ReportedAs("Not Found")]_vars

\* C11: at most one geocoding request is outstanding at any time, and while
\* the search button is disabled and loading no step (a click, the Enter
\* key) starts another request.
C11_OneRequestOutstanding ==
    /\ [](Len(requests) <= 1)
    /\ [][(addressSearchBtn.disabled /\ addressSearchBtn.loading)
             => Len(requests') <= Len(requests)]_vars

\* C12: whenever the search button is in the loading (disabled) state, it is
\* eventually enabled again, whatever becomes of the request.
C12_ButtonReenabled ==
    addressSearchBtn.disabled ~> ~addressSearchBtn.disabled

\* ---- selecting a parish ----
\* C9: selecting a loaded parish, from the sidebar list or from a suggestion,
\* centres the map on it at MAP_DETAIL_ZOOM and opens the popup of its
\* marker; selecting an id of no loaded parish changes neither the view nor
\* the popup.
C9_SelectOpensPopup ==
    [][/\ \A i \in 1..Len(parishes) :
             (ClickParishItem(parishes[i].id) \/ ClickAutocompleteItem(parishes[i].id))
             => /\ mapView' = [center |-> <<parishes[i].lat, parishes[i].lng>>,
                               zoom |-> MAP_DETAIL_ZOOM]
                /\ popup' = Some([kind |-> "marker", id |-> parishes[i].id])
       /\ \A id \in 0..(Len(parishes) + 1) :
             (IsNull(FindParish(parishes, id)) /\ selectParish(id))
             => UNCHANGED <<mapView, popup>>]_vars

====
